---- MODULE Spec2Model ----
(***************************************************************************)
(* State-machine model of src/fetch_vahan.py: the retry loop of main, one  *)
(* retrieval cycle (perform_download_cycle), the click helper              *)
(* try_find_click, the list-item helper find_list_item_and_click, the      *)
(* download watcher wait_for_download_completion and the diagnostic        *)
(* recorder save_debug_snapshot.  The browser session and the download     *)
(* directory are the environment: every session call and every directory   *)
(* observation draws its outcome from a small set.                         *)
(***************************************************************************)
EXTENDS Integers, Sequences, FiniteSets, TLC

(***************************************************************************)
(* Bounds of the model (not program constants).                            *)
(***************************************************************************)
\* number of 0.5 s sleeps that fit into the watcher's timeout
TimeoutTicks == 5
\* file sizes a stat() may report are 0..MaxSize
MaxSize == 1
\* number of link elements the last-resort link scan may find
MaxLinks == 2
\* exports of earlier cycles whose file may still arrive
MaxLate == 1
\* completed exports the browser can write into the directory in one run
MaxExports == 3
\* names of LeftoverNames an earlier run may have left in the directory
MaxLeftover == 3

(***************************************************************************)
(* Program constants.                                                      *)
(***************************************************************************)
\* range(1, 4): attempts per target
MaxAttempts == 3
\* while stable_count < 3
StableNeeded == 3
\* prev_size = -1
InitialPrevSize == -1

\* options_to_fetch, as character sequences so that lower() and "in" are computed
Maker == <<"M", "a", "k", "e", "r">>
VehicleCategory ==
  <<"V", "e", "h", "i", "c", "l", "e", " ", "C", "a", "t", "e", "g", "o", "r", "y">>
VehicleType == <<"V", "e", "h", "i", "c", "l", "e", " ", "T", "y", "p", "e">>
MakerName == <<"M", "a", "k", "e", "r", " ", "N", "a", "m", "e">>
Category == <<"C", "a", "t", "e", "g", "o", "r", "y">>

options_to_fetch == <<Maker, VehicleCategory>>
NT == Len(options_to_fetch)
Targets == 1..NT

YAXIS_OPTIONS == <<Maker, VehicleCategory, VehicleType, MakerName, Category>>

YAXIS_LABEL_CANDIDATES ==
  << [by |-> "id", sel |-> "yaxisVar_label"],
     [by |-> "xpath", sel |-> "//label[contains(@id,'yaxis') or contains(@for,'yaxis')]"],
     [by |-> "xpath", sel |-> "//span[contains(text(), 'Y Axis') or contains(., 'Y Axis')]"] >>

REFRESH_CANDIDATES ==
  << [by |-> "id", sel |-> "j_idt61"],
     [by |-> "xpath", sel |-> "//button[contains(., 'Refresh') or contains(@title,'Refresh')]"],
     [by |-> "xpath", sel |-> "//a[contains(., 'Refresh') or contains(@title,'Refresh')]"],
     [by |-> "css", sel |-> "button.ui-button"] >>

DOWNLOAD_CANDIDATES ==
  << [by |-> "id", sel |-> "vchgroupTable:xls"],
     [by |-> "xpath", sel |-> "//a[contains(@id,'xls') or contains(@href,'.xls') or contains(.,'Export') or contains(.,'Excel')]"],
     [by |-> "xpath", sel |-> "//button[contains(.,'Excel') or contains(.,'Export')]"],
     [by |-> "css", sel |-> "a[download], a[href*='.xls'], a[href*='.xlsx']"] >>

\* the five XPath shapes of find_list_item_and_click
NumPatterns == 5

\* suffixes accepted by the watcher
AcceptedSuffixes == {".xls", ".xlsx", ".csv"}

\* suffixes of the glob patterns of cleanup_old_downloads
CleanupSuffixes == {".xls", ".xlsx", ".csv"}

(***************************************************************************)
(* Files of the download directory.  A file is its path: stem and suffix.  *)
(***************************************************************************)
FA == [stem |-> "reportTable", suffix |-> ".xlsx"]
FB == [stem |-> "reportTable (1)", suffix |-> ".XLS"]
FC == [stem |-> "reportTable (2)", suffix |-> ".xlsx"]
FD == [stem |-> "reportTable (3)", suffix |-> ".xlsx"]
FE == [stem |-> "reportTable (4)", suffix |-> ".xlsx"]
FTmp == [stem |-> "reportTable.xlsx", suffix |-> ".crdownload"]

\* the names the browser gives to the completed exports of a run: the first
\* free one of this list, in this order
AllExportNames == <<FA, FB, FC, FD, FE>>
ExportNames == SubSeq(AllExportNames, 1, MaxExports)
\* the name of a download in progress
PartialFile == FTmp
\* files an earlier run may have left in the directory: completed exports and
\* an interrupted download
LeftoverNames == <<FA, FB, FTmp, FC, FD, FE>>
LeftoverFiles == {LeftoverNames[i] : i \in 1..MaxLeftover}
Files == {ExportNames[i] : i \in 1..Len(ExportNames)} \cup {FTmp} \cup LeftoverFiles
\* the Python value None, as a path that names no file
None == [stem |-> "", suffix |-> ""]

\* the first name of ExportNames that is free in directory d (None: all taken)
NextName(d) ==
  LET S == {i \in 1..Len(ExportNames) : ExportNames[i] \notin d}
  IN IF S = {} THEN None ELSE ExportNames[CHOOSE i \in S : \A k \in S : i <= k]

\* Path.suffix
Suffix(f) == f.suffix

\* str.lower() on the suffixes of the directory
LowerSuffix(s) ==
  CASE s = ".XLS" -> ".xls"
    [] s = ".XLSX" -> ".xlsx"
    [] s = ".CSV" -> ".csv"
    [] OTHER -> s

\* str.lower() on one character of a label
LowerChar(c) ==
  CASE c = "M" -> "m"
    [] c = "V" -> "v"
    [] c = "C" -> "c"
    [] c = "T" -> "t"
    [] c = "N" -> "n"
    [] OTHER -> c

\* str.lower() on a label
Lower(s) == [i \in 1..Len(s) |-> LowerChar(s[i])]

\* the Python test  sub in s  on strings
Contains(sub, s) ==
  \E i \in 0..(Len(s) - Len(sub)) : SubSeq(s, i + 1, i + Len(sub)) = sub

\* if option_label.lower() in candidate.lower()
FuzzyMatch(option_label, candidate) == Contains(Lower(option_label), Lower(candidate))

\* the next index of YAXIS_OPTIONS after i that passes the fuzzy test, 0 if none
NextFuzzy(option_label, i) ==
  LET S == {j \in (i + 1)..Len(YAXIS_OPTIONS) : FuzzyMatch(option_label, YAXIS_OPTIONS[j])}
  IN IF S = {} THEN 0 ELSE CHOOSE j \in S : \A k \in S : j <= k

(***************************************************************************)
(* Outcomes of the environment.                                            *)
(***************************************************************************)
\* webdriver.Chrome(service=Service(ChromeDriverManager().install()), ...)
StartOutcomes == {"ok", "WebDriverException"}
\* a session call (get, execute_script, find_element): it returns or raises
CallOutcomes == {"ok", "TimeoutException", "WebDriverException"}
\* el.click()
ClickOutcomes == {"ok", "ElementClickInterceptedException", "TimeoutException", "WebDriverException"}
\* wait.until(element_to_be_clickable): an element, the wait's timeout, or a session fault
WaitOutcomes == {"found", "TimeoutException", "WebDriverException"}
\* save_screenshot / page_source / open+write inside save_debug_snapshot
SnapOutcomes == {"ok", "screenshot_failed", "markup_failed", "write_failed"}
\* classes caught by "except Exception"
ExceptionClasses ==
  {"TimeoutException", "WebDriverException", "ElementClickInterceptedException",
   "FileNotFoundError", "OSError"}

TfcEnvs == [w : WaitOutcomes, c1 : ClickOutcomes, sc : CallOutcomes,
            c2 : ClickOutcomes, fc : CallOutcomes]

(***************************************************************************)
(* try_find_click(driver, wait, selector, by_type): the value it returns   *)
(* ("True" / "False") or the exception it lets through ("raise" + kind),   *)
(* the session calls it made in order, and whether the wait resolved an    *)
(* element.  env gives the outcome of each call it may make.               *)
(***************************************************************************)
TfcReturn(val, calls, resolved) ==
  [ret |-> val, kind |-> "none", calls |-> calls, resolved |-> resolved,
   clicks_failed |-> 0]

TfcRaise(kind, calls, resolved) ==
  [ret |-> "raise", kind |-> kind, calls |-> calls, resolved |-> resolved,
   clicks_failed |-> 0]

\* the handler "except TimeoutException: return False" around the whole body
TfcHandler(kind, calls, resolved) ==
  IF kind = "TimeoutException"
    THEN TfcReturn("False", calls, resolved)
    ELSE TfcRaise(kind, calls, resolved)

\* the outcome r of a call in which n direct clicks el.click() raised
ClicksFailed(r, n) == [r EXCEPT !.clicks_failed = n]

\* the third tier, the handler of the retried click:
\* driver.execute_script("arguments[0].click();", el)
ForcedActivation(env, calls) ==
  ClicksFailed(IF env.fc = "ok"
                 THEN TfcReturn("True", Append(calls, "force"), TRUE)
                 ELSE TfcHandler(env.fc, Append(calls, "force"), TRUE), 2)

\* a handler that scrolls and goes straight to the forced activation
ScrollAndForce(env, calls) ==
  IF env.sc # "ok"
    THEN ClicksFailed(TfcHandler(env.sc, Append(calls, "scroll"), TRUE), 1)
    ELSE ForcedActivation(env, Append(calls, "scroll"))

\* the second tier, the handler of the first click: scrollIntoView, sleep,
\* el.click()
ScrollAndRetry(env, calls) ==
  IF env.sc # "ok"
    THEN ClicksFailed(TfcHandler(env.sc, Append(calls, "scroll"), TRUE), 1)
    ELSE IF env.c2 = "ok"
      THEN ClicksFailed(TfcReturn("True", calls \o <<"scroll", "click">>, TRUE), 1)
      ELSE ForcedActivation(env, calls \o <<"scroll", "click">>)

try_find_click(by_type, env) ==
  IF by_type \notin {"id", "xpath", "css"}
    THEN TfcReturn("False", <<>>, FALSE)
    ELSE IF env.w # "found"
      THEN TfcHandler(env.w, <<"wait">>, FALSE)
      ELSE IF env.c1 = "ok"
        THEN TfcReturn("True", <<"wait", "click">>, TRUE)
        ELSE ScrollAndRetry(env, <<"wait", "click">>)

\* wait = WebDriverWait(driver, 20), the one wait object main hands to every call
WaitSeconds == 20

\* the timeout arguments of the three call sites of try_find_click
OpenTimeout == 8
RefreshTimeout == 10
ExportTimeout == 8

\* the timeout argument the candidate loop of a role passes
RoleTimeout(role) ==
  CASE role = "open" -> OpenTimeout
    [] role = "refresh" -> RefreshTimeout
    [] role = "export" -> ExportTimeout

\* how long wait.until blocks before it raises TimeoutException: the body of
\* try_find_click never reads its timeout parameter, the limit is the one of
\* the wait object
WaitLimit(timeout) == WaitSeconds

\* the seconds a call spent in a wait that timed out (0 when the wait did not
\* time out)
Waited(r, timeout) ==
  IF r.calls = <<"wait">> /\ r.ret = "False" THEN WaitLimit(timeout) ELSE 0

\* what one call can do, over every behaviour of the session
TfcOutcomes(by_type) == {try_find_click(by_type, env) : env \in TfcEnvs}

\* no call of try_find_click has been made yet in this resolution
NoTfc == TfcReturn("none", <<>>, FALSE)

(***************************************************************************)
(* One iteration of the pattern loop of find_list_item_and_click:          *)
(* wait.until, scrollIntoView, el.click() under "except TimeoutException:  *)
(* continue".                                                              *)
(***************************************************************************)
PatternOutcome(w, sc, ck) ==
  IF w # "found"
    THEN (IF w = "TimeoutException" THEN [ret |-> "continue", kind |-> "none"]
                                    ELSE [ret |-> "raise", kind |-> w])
    ELSE IF sc # "ok"
      THEN (IF sc = "TimeoutException" THEN [ret |-> "continue", kind |-> "none"]
                                       ELSE [ret |-> "raise", kind |-> sc])
      ELSE IF ck = "ok"
        THEN [ret |-> "True", kind |-> "none"]
        ELSE (IF ck = "TimeoutException" THEN [ret |-> "continue", kind |-> "none"]
                                         ELSE [ret |-> "raise", kind |-> ck])

PatternOutcomes ==
  {PatternOutcome(w, sc, ck) : w \in WaitOutcomes, sc \in CallOutcomes, ck \in ClickOutcomes}

\* the visible texts of the list items the opened dropdown may show
PageItems == {YAXIS_OPTIONS[i] : i \in 1..Len(YAXIS_OPTIONS)}

\* (a fifth pattern that compares for equality like the first four)
PatternMatchesByEquality(p, option_text, item) == item = option_text

\* whether pattern p of find_list_item_and_click(option_text) selects a list item
\* with this text: patterns 1-4 compare for equality (@data-label=, normalize-space()=),
\* pattern 5 is contains(., option_text)
PatternMatches(p, option_text, item) ==
  IF p = NumPatterns THEN Contains(option_text, item) ELSE item = option_text

\* (a cycle that goes on after a step that failed)
GuardSkipped(flag) == FALSE

\* "if not opened / chosen / dl_candidate_clicked: save_debug_snapshot(...); return None"
GuardFails(flag) == ~flag

\* (a recorder whose handler catches the session's exceptions only)
SnapshotCatchesSessionFaultsOnly(w) == [raised |-> (w = "write_failed"), written |-> (w = "ok")]

(***************************************************************************)
(* save_debug_snapshot: everything that can fail is inside                 *)
(* try / except Exception, so the call returns whatever w is.              *)
(***************************************************************************)
save_debug_snapshot(w) == [raised |-> FALSE, written |-> (w = "ok")]

(***************************************************************************)
(* The last-resort link scan of the export step.  fe is the outcome of     *)
(* find_elements, outs the outcome of scroll+click on each link found      *)
(* ("ok", "scroll_failed", "click_failed"): the first link whose scroll    *)
(* and click both return is the one clicked; every exception is swallowed. *)
(***************************************************************************)
LinkOutcomes == {"ok", "scroll_failed", "click_failed"}

\* the links that raised (in the scroll or in the click) among the first n
FailedAmong(outs, n) == Cardinality({i \in 1..Len(outs) : i <= n /\ outs[i] # "ok"})

\* (a scan that keeps going after a link was clicked)
LastOk(outs) ==
  LET S == {i \in 1..Len(outs) : outs[i] = "ok"}
  IN IF S = {} THEN 0 ELSE CHOOSE i \in S : \A k \in S : k <= i

FirstOk(outs) ==
  LET S == {i \in 1..Len(outs) : outs[i] = "ok"}
  IN IF S = {} THEN 0 ELSE CHOOSE i \in S : \A k \in S : i <= k

LinkScanResult(fe, outs) ==
  IF fe # "ok"
    THEN [clicked |-> FALSE, idx |-> 0, visited |-> 0, failed |-> 0]
    ELSE [clicked |-> FirstOk(outs) # 0, idx |-> FirstOk(outs),
          visited |-> IF FirstOk(outs) # 0 THEN FirstOk(outs) ELSE Len(outs),
          failed |-> FailedAmong(outs, IF FirstOk(outs) # 0 THEN FirstOk(outs) ELSE Len(outs))]

NoScan == [clicked |-> FALSE, idx |-> 0, visited |-> 0, failed |-> 0]

\* all sequences over S of length 0..n
RECURSIVE SeqsUpTo(_, _)
SeqsUpTo(S, n) ==
  IF n = 0 THEN {<<>>}
  ELSE LET P == SeqsUpTo(S, n - 1)
       IN P \cup {Append(q, x) : q \in {p \in P : Len(p) = n - 1}, x \in S}

\* what the scan can do, over every behaviour of the session
LinkScanResults ==
  {LinkScanResult(fe, outs) : fe \in CallOutcomes, outs \in SeqsUpTo(LinkOutcomes, MaxLinks)}

(***************************************************************************)
(* wait_for_download_completion: pure parts.                               *)
(***************************************************************************)
\* f.suffix.lower() in [".xls", ".xlsx", ".csv"]
Accepted(f) == LowerSuffix(Suffix(f)) \in AcceptedSuffixes

\* (a watcher that forgets its snapshot)
NewFilesIgnoringSnapshot(after, before) == after

\* new = after - before
NewFiles(after, before) == after \ before

\* the update of stable_count by one size sample
NextStable(size, prev, count) == IF size = prev THEN count + 1 ELSE 0

\* the guard of the stabilization loop
KeepSampling(count, elapsed) == count < StableNeeded /\ elapsed < TimeoutTicks

\* the guard of the polling loop: time.time() - start < timeout
KeepPolling(elapsed) == elapsed < TimeoutTicks

\* (a clock that is read once and never again)
ClockStandsStill(elapsed) == elapsed

\* time.sleep(0.5) at the end of an iteration: time.time() - start grows by a tick
Tick(elapsed) == elapsed + 1

\* the files the three globs of cleanup_old_downloads select: "*.xls", "*.xlsx"
\* and "*.csv" match the suffix as it is written, an upper-case one is left
CleanupMatches(d) == {f \in d : Suffix(f) \in CleanupSuffixes}

(***************************************************************************)
(* main: pure parts of the retry loop.                                     *)
(***************************************************************************)
\* (a retry loop that expects timeouts only)
MainCatchesTimeoutOnly(kind) == kind = "TimeoutException"

\* "except Exception" catches every class but the BaseException-only ones
MainCatches(kind) == kind \in ExceptionClasses

\* (a retry loop without the break)
LoopContinuesWithoutBreak(ok, att) == att < MaxAttempts

\* after a failed attempt the for loop runs another one while attempts remain;
\* a success leaves the loop (break)
LoopContinues(ok, att) == ~ok /\ att < MaxAttempts

\* (a run that gives up at the first failed target)
StopAtFailedTarget(t, st) == IF st = "Failed" THEN NT + 1 ELSE t + 1

\* the outer for loop: the target after t, whatever the status st of t
FollowingTarget(t, st) == t + 1

\* (a candidate loop that tries the same candidate again)
SameCandidateAgain(i) == i

\* the candidate loops: "for by_type, sel in ..." moves to the next list entry
NextCandidate(i) == i + 1

\* (a list that takes the newest file first)
CollectInFront(list, x) == <<x>> \o list

\* (an append that runs twice for one cycle)
CollectTwice(list, x) == list \o <<x, x>>

\* downloaded_files.append(result)
Collect(list, x) == Append(list, x)

\* (a cycle that tags a failed export like a missing file)
TagExportAsNoFile(prefix, option_label) ==
  IF prefix = "no_yaxis"
    THEN [prefix |-> prefix, label |-> <<>>]
    ELSE [prefix |-> (IF prefix = "no_download" THEN "no_file" ELSE prefix),
          label |-> option_label]

\* the name_prefix handed to save_debug_snapshot: "no_yaxis" alone, and
\* f"no_option_{option_label}", f"no_download_{option_label}",
\* f"no_file_{option_label}", f"exception_{opt}" (label <<>>: no option in the tag)
Tag(prefix, option_label) ==
  IF prefix = "no_yaxis"
    THEN [prefix |-> prefix, label |-> <<>>]
    ELSE [prefix |-> prefix, label |-> option_label]

\* a release placed in an except clause instead of the finally clause
QuitOnExceptionOnly(how) == IF how = "normal" THEN 0 ELSE 1

\* driver.quit() calls made by the finally clause, however the try block ended
QuitCalls(how) == 1


(***************************************************************************)
(* State.                                                                  *)
(***************************************************************************)
VARIABLES
  pc,                   \* position of the single thread of control
  ti,                   \* index of opt in options_to_fetch
  attempt,              \* the loop variable of the retry loop
  downloaded_files,     \* the list main collects
  records,              \* for each append to the list: the target, the attempt and the file
  status,               \* per target: Pending, Succeeded (appended), Failed (for-else)
  cycles,               \* per target: calls of perform_download_cycle so far
  succ,                 \* per target: attempt and file of its success
  result,               \* value returned by the cycle that just ended
  exc,                  \* exception in flight out of a cycle
  snaps,                \* diagnostic captures taken since the current cycle started
  snapTotal,            \* diagnostic captures taken in the whole run
  snapFailed,           \* the latest capture of this cycle failed inside save_debug_snapshot
  tally,                \* for the current target: captures taken, cycles whose export step
                        \* clicked nothing, captures tagged no_download_<option>
  quitCount,            \* calls of driver.quit()
  driver,               \* the browser session: none (not created), alive, quit
  lateCall,             \* some session call was made after driver.quit()
  exitStatus,           \* running, normal (summary printed), exception
  summary,              \* what the summary step printed
  dir,                  \* files present in DOWNLOAD_DIR
  ownPending,           \* the export of this cycle was clicked and its file has not arrived
  ownFile,              \* the file the export of this cycle produced (None: none yet)
  late,                 \* exports of earlier cycles whose file has not arrived
  preCycle,             \* directory contents when the current cycle started
  opened, chosen, refreshed, dl_candidate_clicked, before_files,
  ci,                   \* index of the candidate the current resolution tries next
  tried,                \* candidates tried so far in the current resolution
  tfc,                  \* outcome of the latest try_find_click
  phase, oi, pi,        \* list-item step: exact / fuzzy pass, YAXIS_OPTIONS index, pattern index
  picked,               \* the list item the step clicked: its text, and the pass, the
                        \* option_text and the pattern that found it
  scan,                 \* outcome of the link scan
  before, elapsed, wf, prev_size, stable_count,
  nsamples,             \* number of sizes read for wf
  last_sample,          \* the latest size read for wf
  streak                \* how many of the latest sizes read for wf are equal

mainVars == <<ti, attempt, downloaded_files, records, status, cycles, succ, quitCount, driver,
              exitStatus, summary>>
diagVars == <<snaps, snapTotal, snapFailed, tally>>
envVars == <<dir, ownPending, ownFile, late>>
flagVars == <<opened, chosen, refreshed, dl_candidate_clicked, before_files>>
resVars == <<ci, tried, tfc>>
chooseVars == <<phase, oi, pi, picked>>
watchVars == <<before, elapsed, wf, prev_size, stable_count, nsamples, last_sample, streak>>

vars == <<pc, result, exc, lateCall, preCycle, scan, mainVars, diagVars, envVars,
          flagVars, resVars, chooseVars, watchVars>>

NoExc == [step |-> "none", kind |-> "none"]
NoSucc == [att |-> 0, file |-> None]
NoSummary == [printed |-> FALSE, files |-> <<>>, failed |-> {}, snap_dir |-> FALSE]

\* what is printed from "--- Summary ---" on: one "Downloaded:" line per collected
\* file, or, when the list is empty, the line that gives SNAP_DIR; no line names
\* a target that failed (failed: the targets the lines name as failed)
SummaryLines(files) ==
  [printed |-> TRUE, files |-> files, failed |-> {}, snap_dir |-> (files = <<>>)]
Sizes == 0..MaxSize
NoPick == [text |-> <<>>, phase |-> "none", query |-> <<>>, pattern |-> 0]
NoTally == [captures |-> 0, export_fails |-> 0, no_download_tags |-> 0]

\* the tally after a capture tagged tag
Tallied(tag, label) ==
  [tally EXCEPT !.captures = @ + 1,
                !.no_download_tags = IF tag = [prefix |-> "no_download", label |-> label]
                                       THEN @ + 1 ELSE @]

\* the values of a cycle's local variables before the cycle runs
LocalsInit ==
  /\ opened = FALSE /\ chosen = FALSE /\ refreshed = FALSE
  /\ dl_candidate_clicked = FALSE /\ before_files = {}
  /\ ci = 1 /\ tried = <<>> /\ tfc = NoTfc
  /\ phase = "exact" /\ oi = 0 /\ pi = 1 /\ picked = NoPick
  /\ scan = NoScan
  /\ before = {} /\ elapsed = 0 /\ wf = None
  /\ prev_size = InitialPrevSize /\ stable_count = 0
  /\ nsamples = 0 /\ last_sample = InitialPrevSize /\ streak = 0
  /\ preCycle = {}

\* the frame of a cycle is dropped when the cycle returns to main or raises
ResetFrame ==
  /\ opened' = FALSE /\ chosen' = FALSE /\ refreshed' = FALSE
  /\ dl_candidate_clicked' = FALSE /\ before_files' = {}
  /\ ci' = 1 /\ tried' = <<>>
  /\ phase' = "exact" /\ oi' = 0 /\ pi' = 1 /\ picked' = NoPick
  /\ scan' = NoScan
  /\ before' = {} /\ elapsed' = 0 /\ wf' = None
  /\ prev_size' = InitialPrevSize /\ stable_count' = 0
  /\ nsamples' = 0 /\ last_sample' = InitialPrevSize /\ streak' = 0
  /\ preCycle' = {}

ResetLocals == ResetFrame /\ tfc' = NoTfc

Init ==
  /\ pc = "start"
  /\ ti = 1 /\ attempt = 1
  /\ downloaded_files = <<>> /\ records = <<>>
  /\ status = [t \in Targets |-> "Pending"]
  /\ cycles = [t \in Targets |-> 0]
  /\ succ = [t \in Targets |-> NoSucc]
  /\ result = None
  /\ exc = NoExc
  /\ snaps = <<>> /\ snapTotal = 0 /\ snapFailed = FALSE /\ tally = NoTally
  /\ quitCount = 0 /\ driver = "none" /\ lateCall = FALSE
  /\ exitStatus = "running"
  /\ summary = NoSummary
  /\ dir \in SUBSET LeftoverFiles
  /\ ownPending = FALSE /\ ownFile = None /\ late = 0
  /\ LocalsInit

\* a call on the browser session is made by the step
Touch == lateCall' = (lateCall \/ quitCount > 0)

\* the option_label of the current cycle
Label == options_to_fetch[ti]

\* when a cycle ends, an export it clicked whose file has not arrived stays in
\* flight in the browser
CycleEnds ==
  /\ late' = IF ownPending /\ late < MaxLate THEN late + 1 ELSE late
  /\ ownPending' = FALSE
  /\ ownFile' = None

\* the step goes on to position p without raising and without a capture
Goto(p) == pc' = p /\ exc' = exc /\ result' = result /\ UNCHANGED diagVars

\* an exception of class kind leaves perform_download_cycle from step
Raise(step, kind) ==
  /\ pc' = "except" /\ exc' = [step |-> step, kind |-> kind]
  /\ result' = result /\ UNCHANGED diagVars

\* ... raised by a statement of the cycle itself
RaiseFrom(step, kind) == Raise(step, kind) /\ ResetLocals

\* ... let through by try_find_click, whose outcome was r
RaiseFromTfc(step, r) == Raise(step, r.kind) /\ ResetFrame /\ tfc' = r

\* save_debug_snapshot(driver, tag) followed by "return None"
Abort(prefix) ==
  \E w \in SnapOutcomes :
    LET s == save_debug_snapshot(w) IN
      /\ snaps' = Append(snaps, Tag(prefix, Label))
      /\ snapTotal' = snapTotal + 1
      /\ snapFailed' = ~s.written
      /\ tally' = [Tallied(Tag(prefix, Label), Label) EXCEPT
                     !.export_fails = IF prefix = "no_download" THEN @ + 1 ELSE @]
      /\ IF s.raised
           THEN pc' = "except" /\ exc' = [step |-> "snapshot", kind |-> "OSError"]
                /\ result' = result
           ELSE pc' = "ret" /\ result' = None /\ exc' = exc

\* the record of one try_find_click in the current resolution
Record(role, r) ==
  /\ tfc' = r
  /\ tried' = Append(IF tried # <<>> /\ tried[1].role = role THEN tried ELSE <<>>,
                     [role |-> role, idx |-> ci, resolved |-> r.resolved, ret |-> r.ret,
                      timeout |-> RoleTimeout(role),
                      waited |-> Waited(r, RoleTimeout(role))])

\* clear the record of the previous resolution
Forget == tried' = <<>> /\ tfc' = NoTfc /\ ci' = 1

(***************************************************************************)
(* main, up to the first cycle.                                            *)
(***************************************************************************)
\* the statements of main before the try block: the options, the driver and
\* the wait object; an exception of the browser start ends main at once, with no
\* session, no cycle, no summary and no finally clause
StartSession ==
  /\ pc = "start"
  /\ \E o \in StartOutcomes :
       IF o = "ok"
         THEN /\ pc' = "cleanup" /\ exc' = exc /\ exitStatus' = exitStatus
              /\ driver' = "alive"
         ELSE /\ pc' = "done" /\ exitStatus' = "exception"
              /\ exc' = [step |-> "start", kind |-> o]
              /\ driver' = driver
  /\ UNCHANGED <<result, lateCall, preCycle, scan, ti, attempt, downloaded_files, records,
                 status, cycles, succ, quitCount, summary, diagVars, envVars, flagVars,
                 resVars, chooseVars, watchVars>>

\* cleanup_old_downloads(): unlink of a matching file may fail and is swallowed
Cleanup ==
  /\ pc = "cleanup"
  /\ \E removed \in SUBSET CleanupMatches(dir) : dir' = dir \ removed
  /\ pc' = IF NT >= 1 THEN "navigate" ELSE "summary"
  /\ UNCHANGED <<result, exc, lateCall, preCycle, scan, mainVars, diagVars, ownPending,
                 ownFile, late, flagVars, resVars, chooseVars, watchVars>>

(***************************************************************************)
(* perform_download_cycle.                                                 *)
(***************************************************************************)
\* driver.get(URL); time.sleep(2)
Navigate ==
  /\ pc = "navigate"
  /\ Touch
  /\ cycles' = [cycles EXCEPT ![ti] = @ + 1]
  /\ snaps' = <<>> /\ snapFailed' = FALSE /\ snapTotal' = snapTotal /\ tally' = tally
  /\ result' = result
  /\ \E o \in CallOutcomes :
       IF o = "ok"
         THEN /\ pc' = "open" /\ exc' = exc /\ preCycle' = dir
              /\ UNCHANGED <<scan, flagVars, resVars, chooseVars, watchVars>>
         ELSE /\ pc' = "except" /\ exc' = [step |-> "navigate", kind |-> o]
              /\ ResetLocals
  /\ UNCHANGED <<ti, attempt, downloaded_files, records, status, succ, quitCount, driver, exitStatus,
                 summary, envVars>>

\* 1) one iteration of the loop over YAXIS_LABEL_CANDIDATES
OpenCandidate ==
  /\ pc = "open"
  /\ Touch
  /\ \E r \in TfcOutcomes(YAXIS_LABEL_CANDIDATES[ci].by) :
       CASE r.ret = "True" ->
              /\ Record("open", r) /\ opened' = TRUE /\ ci' = 1 /\ Goto("choose")
              /\ UNCHANGED <<preCycle, scan, chosen, refreshed, dl_candidate_clicked,
                             before_files, chooseVars, watchVars>>
         [] r.ret = "False" ->
              /\ Record("open", r)
              /\ IF ci < Len(YAXIS_LABEL_CANDIDATES)
                   THEN ci' = NextCandidate(ci) /\ Goto("open")
                   ELSE ci' = 1 /\ Goto("open_fb")
              /\ UNCHANGED <<preCycle, scan, flagVars, chooseVars, watchVars>>
         [] OTHER -> RaiseFromTfc("open", r)
  /\ UNCHANGED <<mainVars, envVars>>

\* the fallback of step 1 (find_element + scripted click, every exception swallowed),
\* then "if not opened: save_debug_snapshot; return None"
OpenFallback ==
  /\ pc = "open_fb"
  /\ Touch
  /\ Forget
  /\ \E fe \in CallOutcomes, es \in CallOutcomes :
       /\ opened' = (fe = "ok" /\ es = "ok")
       /\ IF GuardFails(fe = "ok" /\ es = "ok") THEN Abort("no_yaxis") ELSE Goto("choose")
  /\ UNCHANGED <<preCycle, scan, mainVars, envVars, chosen, refreshed, dl_candidate_clicked,
                 before_files, chooseVars, watchVars>>

\* 2) one iteration of the pattern loop of find_list_item_and_click, for the label
\* (exact pass) or for YAXIS_OPTIONS[oi] (fuzzy pass), and what follows its return
ChoosePattern ==
  /\ pc = "choose"
  /\ Touch
  /\ \E o \in PatternOutcomes :
       LET nxt == NextFuzzy(Label, oi)
           option_text == IF phase = "exact" THEN Label ELSE YAXIS_OPTIONS[oi]
       IN CASE o.ret = "True" ->
                 /\ \E item \in {i \in PageItems : PatternMatches(pi, option_text, i)} :
                      picked' = [text |-> item, phase |-> phase, query |-> option_text,
                                 pattern |-> pi]
                 /\ chosen' = TRUE /\ Goto("refresh") /\ Forget
                 /\ UNCHANGED <<preCycle, scan, opened, refreshed, dl_candidate_clicked,
                                before_files, phase, oi, pi, watchVars>>
            [] o.ret = "raise" -> RaiseFrom("choose", o.kind)
            [] OTHER ->
                 /\ Forget
                 /\ IF pi < NumPatterns
                      THEN pi' = pi + 1 /\ Goto("choose") /\ UNCHANGED <<phase, oi, picked>>
                      ELSE IF nxt # 0
                        THEN /\ phase' = "fuzzy" /\ oi' = nxt /\ pi' = 1 /\ Goto("choose")
                             /\ picked' = picked
                        ELSE /\ UNCHANGED chooseVars
                             /\ IF GuardFails(chosen) THEN Abort("no_option")
                                                      ELSE Goto("refresh")
                 /\ UNCHANGED <<preCycle, scan, flagVars, watchVars>>
  /\ UNCHANGED <<mainVars, envVars>>

\* 3) one iteration of the loop over REFRESH_CANDIDATES; when one is clicked:
\* time.sleep(3) and before_files = set(DOWNLOAD_DIR.glob("*"))
RefreshCandidate ==
  /\ pc = "refresh"
  /\ Touch
  /\ \E r \in TfcOutcomes(REFRESH_CANDIDATES[ci].by) :
       CASE r.ret = "True" ->
              /\ Record("refresh", r)
              /\ refreshed' = TRUE /\ ci' = 1 /\ before_files' = dir
              /\ phase' = "exact" /\ oi' = 0 /\ pi' = 1 /\ picked' = NoPick
              /\ Goto("export")
              /\ UNCHANGED <<preCycle, scan, opened, chosen, dl_candidate_clicked, watchVars>>
         [] r.ret = "False" ->
              /\ Record("refresh", r)
              /\ phase' = "exact" /\ oi' = 0 /\ pi' = 1 /\ picked' = NoPick
              /\ IF ci < Len(REFRESH_CANDIDATES)
                   THEN ci' = NextCandidate(ci) /\ Goto("refresh")
                   ELSE ci' = 1 /\ Goto("refresh_js")
              /\ UNCHANGED <<preCycle, scan, flagVars, watchVars>>
         [] OTHER -> RaiseFromTfc("refresh", r)
  /\ UNCHANGED <<mainVars, envVars>>

\* "if not refreshed": the no-op script under try / except Exception: pass;
\* then time.sleep(3) and before_files = set(DOWNLOAD_DIR.glob("*"))
RefreshJs ==
  /\ pc = "refresh_js"
  /\ Touch
  /\ Forget
  /\ before_files' = dir
  /\ \E o \in CallOutcomes : Goto("export")
  /\ UNCHANGED <<preCycle, scan, mainVars, envVars, opened, chosen, refreshed,
                 dl_candidate_clicked, chooseVars, watchVars>>

\* 4) one iteration of the loop over DOWNLOAD_CANDIDATES
ExportCandidate ==
  /\ pc = "export"
  /\ Touch
  /\ \E r \in TfcOutcomes(DOWNLOAD_CANDIDATES[ci].by) :
       CASE r.ret = "True" ->
              /\ Record("export", r)
              /\ dl_candidate_clicked' = TRUE /\ ci' = 1
              /\ ownPending' = TRUE
              /\ Goto("await")
              /\ UNCHANGED <<preCycle, scan, opened, chosen, refreshed, before_files,
                             chooseVars, watchVars>>
         [] r.ret = "False" ->
              /\ Record("export", r)
              /\ ownPending' = ownPending
              /\ IF ci < Len(DOWNLOAD_CANDIDATES)
                   THEN ci' = NextCandidate(ci) /\ Goto("export")
                   ELSE ci' = 1 /\ Goto("linkscan")
              /\ UNCHANGED <<preCycle, scan, flagVars, chooseVars, watchVars>>
         [] OTHER -> ownPending' = ownPending /\ RaiseFromTfc("export", r)
  /\ UNCHANGED <<mainVars, dir, ownFile, late>>

\* the last resort of step 4, then "if not dl_candidate_clicked: snapshot; return None"
LinkScan ==
  /\ pc = "linkscan"
  /\ Touch
  /\ Forget
  /\ \E r \in LinkScanResults :
       /\ scan' = r
       /\ dl_candidate_clicked' = r.clicked
       /\ ownPending' = (r.clicked \/ ownPending)
       /\ IF GuardFails(r.clicked) THEN Abort("no_download") ELSE Goto("await")
  /\ UNCHANGED <<preCycle, mainVars, dir, ownFile, late, opened, chosen, refreshed,
                 before_files, chooseVars, watchVars>>

(***************************************************************************)
(* wait_for_download_completion(DOWNLOAD_DIR, timeout=25), as called by    *)
(* step 5 of the cycle.  The clock advances by one tick per sleep(0.5).    *)
(***************************************************************************)
\* the call: start = time.time()
Await ==
  /\ pc = "await"
  /\ elapsed' = 0
  /\ Forget /\ scan' = NoScan
  /\ Goto("snapshot")
  /\ UNCHANGED <<lateCall, preCycle, mainVars, envVars, flagVars, chooseVars,
                 before, wf, prev_size, stable_count, nsamples, last_sample, streak>>

\* before = set(dldir.glob("*"))
Snapshot ==
  /\ pc = "snapshot"
  /\ before' = dir
  /\ Goto("poll")
  /\ UNCHANGED <<lateCall, preCycle, scan, mainVars, envVars, flagVars, resVars, chooseVars,
                 elapsed, wf, prev_size, stable_count, nsamples, last_sample, streak>>

\* the browser puts a file into the directory, wherever the program is while
\* the session lives: the partial file of a download in progress, or a
\* completed export (its partial file renamed) of this cycle ("own") or of an
\* earlier cycle ("late")
BrowserWrite ==
  /\ pc \notin {"start", "done"}
  /\ \E kind \in {"partial", "own", "late"} :
       CASE kind = "partial" ->
              /\ (ownPending \/ late > 0) /\ PartialFile \notin dir
              /\ dir' = dir \cup {PartialFile}
              /\ UNCHANGED <<ownPending, ownFile, late>>
         [] kind = "own" ->
              /\ ownPending /\ NextName(dir) # None
              /\ dir' = (dir \ {PartialFile}) \cup {NextName(dir)}
              /\ ownFile' = NextName(dir) /\ ownPending' = FALSE /\ late' = late
         [] OTHER ->
              /\ late > 0 /\ NextName(dir) # None
              /\ dir' = (dir \ {PartialFile}) \cup {NextName(dir)}
              /\ late' = late - 1 /\ UNCHANGED <<ownPending, ownFile>>
  /\ UNCHANGED <<pc, result, exc, lateCall, preCycle, scan, mainVars, diagVars,
                 flagVars, resVars, chooseVars, watchVars>>

\* one iteration of the outer while loop: glob, look for a new accepted file,
\* sleep(0.5); when the loop ends the watcher returns None and the cycle takes
\* the no_file snapshot and returns None
Poll ==
  /\ pc = "poll"
  /\ IF KeepPolling(elapsed)
       THEN LET new == NewFiles(dir, before)
                acc == {f \in new : Accepted(f)}
            IN IF acc # {}
                 THEN /\ \E f \in acc : wf' = f
                      /\ prev_size' = InitialPrevSize /\ stable_count' = 0
                      /\ elapsed' = elapsed
                      /\ Goto("stabilize")
                 ELSE /\ elapsed' = Tick(elapsed)
                      /\ UNCHANGED <<wf, prev_size, stable_count>>
                      /\ Goto("poll")
       ELSE /\ UNCHANGED <<wf, prev_size, stable_count, elapsed>>
            /\ Abort("no_file")
  /\ UNCHANGED <<lateCall, preCycle, scan, mainVars, envVars, flagVars, resVars, chooseVars,
                 before, nsamples, last_sample, streak>>

\* one iteration of the size loop: f.stat().st_size (FileNotFoundError when the
\* file is gone), compare, sleep(0.5); when the loop ends: return f
Stabilize ==
  /\ pc = "stabilize"
  /\ IF KeepSampling(stable_count, elapsed)
       THEN \E gone \in BOOLEAN, size \in Sizes :
              IF gone
                THEN /\ dir' = dir \ {wf}
                     /\ RaiseFrom("await", "FileNotFoundError")
                ELSE /\ dir' = dir
                     /\ stable_count' = NextStable(size, prev_size, stable_count)
                     /\ prev_size' = size
                     /\ nsamples' = IF nsamples < TimeoutTicks THEN nsamples + 1 ELSE nsamples
                     /\ last_sample' = size
                     /\ streak' = IF nsamples > 0 /\ size = last_sample THEN streak + 1 ELSE 1
                     /\ elapsed' = Tick(elapsed)
                     /\ Goto("stabilize")
                     /\ UNCHANGED <<preCycle, scan, flagVars, resVars, chooseVars, before, wf>>
       ELSE /\ pc' = "ret" /\ result' = wf /\ exc' = exc
            /\ UNCHANGED <<diagVars, dir, preCycle, scan, flagVars, resVars, chooseVars,
                           watchVars>>
  /\ UNCHANGED <<lateCall, mainVars, ownPending, ownFile, late>>

(***************************************************************************)
(* main: the retry loop, the summary and the finally clause.               *)
(***************************************************************************)
\* "if result: append; break  else: sleep(2)", and the for-else when the
\* attempts are used up
MainResult ==
  /\ pc = "ret"
  /\ LET ok == result # None IN
       /\ downloaded_files' = IF ok THEN Collect(downloaded_files, result) ELSE downloaded_files
       /\ records' = IF ok THEN Collect(records, [target |-> ti, attempt |-> attempt,
                                                  file |-> result])
                          ELSE records
       /\ succ' = IF ok THEN [succ EXCEPT ![ti] = [att |-> attempt, file |-> result]] ELSE succ
       /\ IF LoopContinues(ok, attempt)
            THEN /\ attempt' = attempt + 1 /\ pc' = "navigate"
                 /\ status' = IF ok THEN [status EXCEPT ![ti] = "Succeeded"] ELSE status
            ELSE /\ attempt' = attempt /\ pc' = "next"
                 /\ status' = [status EXCEPT ![ti] = IF ok THEN "Succeeded" ELSE "Failed"]
  /\ result' = None
  /\ ResetLocals
  /\ CycleEnds
  /\ UNCHANGED <<exc, lateCall, ti, cycles, quitCount, driver, exitStatus, summary, diagVars, dir>>

\* "except Exception as e": snapshot, sleep(2), next attempt or for-else; an
\* exception the clause does not catch goes to the finally clause
MainExcept ==
  /\ pc = "except"
  /\ IF MainCatches(exc.kind)
       THEN /\ Touch
            /\ \E w \in SnapOutcomes :
                 LET s == save_debug_snapshot(w) IN
                   /\ snaps' = Append(snaps, Tag("exception", Label))
                   /\ snapTotal' = snapTotal + 1
                   /\ snapFailed' = ~s.written
                   /\ tally' = Tallied(Tag("exception", Label), Label)
                   /\ IF s.raised
                        THEN /\ pc' = "finally" /\ exitStatus' = "exception"
                             /\ exc' = [step |-> "handler", kind |-> "OSError"]
                             /\ UNCHANGED <<attempt, status>>
                        ELSE /\ exc' = NoExc /\ exitStatus' = exitStatus
                             /\ IF LoopContinues(FALSE, attempt)
                                  THEN attempt' = attempt + 1 /\ pc' = "navigate"
                                       /\ status' = status
                                  ELSE attempt' = attempt /\ pc' = "next"
                                       /\ status' = [status EXCEPT ![ti] = "Failed"]
       ELSE /\ pc' = "finally" /\ exitStatus' = "exception"
            /\ UNCHANGED <<exc, lateCall, attempt, status, diagVars>>
  /\ result' = None
  /\ ResetLocals
  /\ CycleEnds
  /\ UNCHANGED <<ti, downloaded_files, records, cycles, succ, quitCount, driver, summary, dir>>

\* the outer for loop moves to the next option, or ends
NextTarget ==
  /\ pc = "next"
  /\ IF FollowingTarget(ti, status[ti]) <= NT
       THEN ti' = FollowingTarget(ti, status[ti]) /\ attempt' = 1 /\ pc' = "navigate"
       ELSE pc' = "summary" /\ UNCHANGED <<ti, attempt>>
  /\ tally' = IF FollowingTarget(ti, status[ti]) <= NT THEN NoTally ELSE tally
  /\ UNCHANGED <<result, exc, lateCall, preCycle, scan, downloaded_files, records, status, cycles,
                 succ, quitCount, driver, exitStatus, summary, snaps, snapTotal, snapFailed, envVars,
                 flagVars, resVars, chooseVars, watchVars>>

\* print the summary: the downloaded names, or the snapshot directory when the
\* list is empty
Summary ==
  /\ pc = "summary"
  /\ summary' = SummaryLines(downloaded_files)
  /\ exitStatus' = "normal"
  /\ pc' = "finally"
  /\ UNCHANGED <<result, exc, lateCall, preCycle, scan, ti, attempt, downloaded_files, records,
                 status, cycles, succ, quitCount, driver, diagVars, envVars, flagVars, resVars,
                 chooseVars,
                 watchVars>>

\* finally: try: driver.quit() except Exception: pass
Quit ==
  /\ pc = "finally"
  /\ quitCount' = quitCount + QuitCalls(exitStatus)
  /\ driver' = "quit"
  /\ pc' = "done"
  /\ UNCHANGED <<result, exc, lateCall, preCycle, scan, ti, attempt, downloaded_files, records,
                 status, cycles, succ, exitStatus, summary, diagVars, envVars, flagVars, resVars,
                 chooseVars, watchVars>>

\* a step of the program's single thread of control
ProgramStep ==
  \/ StartSession
  \/ Cleanup
  \/ Navigate
  \/ OpenCandidate
  \/ OpenFallback
  \/ ChoosePattern
  \/ RefreshCandidate
  \/ RefreshJs
  \/ ExportCandidate
  \/ LinkScan
  \/ Await
  \/ Snapshot
  \/ Poll
  \/ Stabilize
  \/ MainResult
  \/ MainExcept
  \/ NextTarget
  \/ Summary
  \/ Quit

Next ==
  \/ ProgramStep
  \/ BrowserWrite

Spec == Init /\ [][Next]_vars


(***************************************************************************)
(* Properties.                                                             *)
(***************************************************************************)
\* the run is over (the finally clause has run, or main ended before the try block)
Done == pc = "done"

\* the browser session was created: webdriver.Chrome has returned it
SessionStarted == driver # "none"

\* the candidate list of a selector role
CandidatesOf(role) ==
  CASE role = "open" -> YAXIS_LABEL_CANDIDATES
    [] role = "refresh" -> REFRESH_CANDIDATES
    [] OTHER -> DOWNLOAD_CANDIDATES

\* C1: main runs at most 3 cycles per target and none after the first cycle
\* that returned a file: a target whose success came on attempt k has had
\* exactly k cycles, and every cycle in progress is the attempt-th of its target.
C1_AtMostThreeStopAtSuccess ==
  \A t \in Targets :
    /\ cycles[t] <= MaxAttempts
    /\ (status[t] = "Succeeded") =>
         (succ[t].att \in 1..MaxAttempts /\ cycles[t] = succ[t].att)
    /\ (t = ti /\ pc \notin {"start", "cleanup", "navigate"} /\ exitStatus = "running") =>
         cycles[t] = attempt

\* C1 witness: the first target succeeded on its 2nd attempt, the second on its 3rd
C1_Witness ==
  /\ Done
  /\ succ[1].att = 2 /\ cycles[1] = 2
  /\ succ[2].att = 3 /\ cycles[2] = 3

\* C2: in a run whose browser session was created, every target is attempted
\* at least once whatever happened to the targets before it; when the first
\* target failed all 3 attempts and the second succeeded on its first, the
\* first is Failed and the only record collected is the second's.
C2_FailureDoesNotBlock ==
  /\ (pc \in {"summary", "finally", "done"} /\ SessionStarted) =>
       \A t \in Targets : cycles[t] >= 1 /\ status[t] \in {"Succeeded", "Failed"}
  /\ \A t \in Targets : (t < ti) => status[t] \in {"Succeeded", "Failed"}
  /\ (pc \in {"summary", "finally", "done"} /\ status[1] = "Failed" /\ succ[2].att = 1) =>
       /\ cycles[1] = MaxAttempts
       /\ status[2] = "Succeeded"
       /\ downloaded_files = <<succ[2].file>>

\* C2 witness: the run is over, target 1 failed 3 times, target 2 succeeded at once
C2_Witness ==
  /\ Done
  /\ status[1] = "Failed" /\ cycles[1] = 3
  /\ status[2] = "Succeeded" /\ succ[2].att = 1 /\ cycles[2] = 1
  /\ Len(downloaded_files) = 1

\* C3 (as claimed): the watcher hands a file to the cycle only after three
\* consecutive samples of it showed the same size.
C3_ReportedOnlyWhenStable ==
  (pc = "ret" /\ result # None) => streak >= StableNeeded

\* C4 (as claimed): wait_for_download_completion never raises; its outcome is a
\* file or None.
C4_WatcherNeverRaises ==
  ~(pc = "except" /\ exc.step = "await")

\* C5: the file the watcher returns was not in the directory before the cycle
\* (nor in the watcher's own snapshot), and its suffix, lower-cased, is one of
\* .xls, .xlsx, .csv; the same holds of the file it is sampling.
C5_OnlyNewAcceptedFiles ==
  /\ (pc = "ret" /\ result # None) =>
       /\ result \notin preCycle
       /\ result \notin before
       /\ LowerSuffix(Suffix(result)) \in {".xls", ".xlsx", ".csv"}
  /\ (pc = "stabilize") =>
       /\ wf \notin preCycle
       /\ wf \notin before
       /\ LowerSuffix(Suffix(wf)) \in {".xls", ".xlsx", ".csv"}

\* C5 witness: a file is returned while a leftover of an earlier cycle or run
\* and a partial download lie in the directory
C5_Witness ==
  /\ pc = "ret" /\ result # None
  /\ preCycle # {}
  /\ PartialFile \in dir

\* C6 (as claimed): once a candidate has resolved an element, no later candidate
\* of the role is tried in that resolution.
C6_NoCandidateAfterResolved ==
  \A k \in 1..Len(tried) : tried[k].resolved => k = Len(tried)

\* C6 (amended): the candidates of a role are tried in list order, none skipped
\* and none twice; the loop moves to the next candidate only when
\* try_find_click returned False, which after the element resolved happens only
\* when the scroll or the forced activation raised TimeoutException; it stops
\* at the first True, which comes from a resolved element; the fallback is
\* reached only when every candidate of the role returned False.
C6_InOrderUntilClicked ==
  /\ \A k \in 1..Len(tried) :
       /\ tried[k].idx = k
       /\ k <= Len(CandidatesOf(tried[k].role))
       /\ tried[k].role = tried[1].role
       /\ (k < Len(tried)) => tried[k].ret = "False"
       /\ (tried[k].ret = "True") => tried[k].resolved
  /\ (tried # <<>> /\ tried[Len(tried)].resolved /\ tried[Len(tried)].ret = "False") =>
       /\ tfc.calls # <<>>
       /\ tfc.calls[Len(tfc.calls)] \in {"scroll", "force"}
  /\ (pc \in {"open_fb", "refresh_js", "linkscan"}) =>
       /\ Len(tried) = Len(CandidatesOf(tried[1].role))
       /\ \A k \in 1..Len(tried) : tried[k].ret = "False"
  /\ (pc = "choose" /\ tried # <<>>) =>
       (tried[1].role = "open" /\ tried[Len(tried)].ret = "True")
  /\ (pc = "await") =>
       (tried = <<>> \/ (tried[1].role = "export" /\ tried[Len(tried)].ret = "True"))

\* C6 witness: the first two export candidates failed (one did not resolve, one
\* resolved and timed out in the click) and the third was clicked
C6_Witness ==
  /\ pc = "await"
  /\ Len(tried) = 3
  /\ ~tried[1].resolved
  /\ tried[2].resolved /\ tried[2].ret = "False"
  /\ tried[3].ret = "True"

\* C7 (as claimed): the caller of perform_download_cycle never observes an
\* exception from a cycle.
C7_NoExceptionLeavesCycle ==
  pc # "except"

\* C7 (amended): an exception that leaves perform_download_cycle is caught by
\* the except clause of main's retry loop, which takes one capture tagged
\* exception_<target>, collects nothing, and goes on to the next attempt or,
\* after the third, marks the target failed; the run does not end by it.
C7_FaultCaughtByRetryLoop ==
  [][(pc = "except" /\ pc' # "except") =>
       /\ pc' \in {"navigate", "next"}
       /\ snaps' = Append(snaps, [prefix |-> "exception", label |-> options_to_fetch[ti]])
       /\ snapTotal' = snapTotal + 1
       /\ downloaded_files' = downloaded_files
       /\ exitStatus' = exitStatus
       /\ exc' = NoExc
       /\ ti' = ti
       /\ (attempt < MaxAttempts) => (pc' = "navigate" /\ attempt' = attempt + 1)
       /\ (attempt >= MaxAttempts) => (pc' = "next" /\ status'[ti] = "Failed")]_vars

\* C7 witness: a session fault raised in the export step is in flight to main
C7_Witness ==
  /\ pc = "except"
  /\ exc.step = "export" /\ exc.kind = "WebDriverException"

\* C8 (as claimed): no error is fatal to the run: the run never ends by an
\* exception, and it ends only after the summary was printed.
C8_RunEndsNormally ==
  /\ exitStatus # "exception"
  /\ (pc \in {"finally", "done"}) => (summary.printed /\ exitStatus = "normal")

\* C9 (as claimed): in a run whose browser session was created, driver.quit()
\* is called exactly once, at the end of the run, on every exit path, whether
\* the run ended normally or by an exception, and no session call is made
\* after it.
C9_QuitExactlyOnce ==
  /\ quitCount <= 1
  /\ (quitCount = 1) => Done
  /\ (Done /\ SessionStarted) => quitCount = 1
  /\ ~lateCall

\* a run with a failed target, a capture and a collected file has ended and
\* released its session
C9_Witness ==
  /\ Done /\ driver = "quit" /\ quitCount = 1
  /\ \E t \in Targets : status[t] = "Failed"
  /\ \E t \in Targets : status[t] = "Succeeded"
  /\ snapTotal > 0

\* C10 (as claimed): once the element is resolved, try_find_click returns True
\* or False whatever the outcomes of the click tiers; it never raises.
C10_ClickReportsBoolean ==
  tfc.resolved => tfc.ret \in {"True", "False"}


\* the run has left the loop over the targets
LoopOver == pc \in {"summary", "finally", "done"}

\* C11: when the first cycle of every target returned a file, the run executed
\* exactly one cycle per target, collected exactly one record per target in
\* target order, marked no target Failed and took no diagnostic capture.
C11_AllSucceedAtOnce ==
  (LoopOver /\ \A t \in Targets : succ[t].att = 1) =>
    /\ \A t \in Targets : cycles[t] = 1 /\ status[t] = "Succeeded"
    /\ Len(downloaded_files) = NT /\ Len(records) = NT
    /\ \A t \in Targets :
         /\ downloaded_files[t] = succ[t].file
         /\ records[t] = [target |-> t, attempt |-> 1, file |-> succ[t].file]
    /\ snapTotal = 0 /\ snaps = <<>>

\* C11 witness: the run is over and both targets succeeded on their first attempt
C11_Witness ==
  /\ Done /\ exitStatus = "normal"
  /\ \A t \in Targets : succ[t].att = 1 /\ cycles[t] = 1
  /\ Len(downloaded_files) = 2

\* C12 (as claimed): the one capture of a cycle that ended Aborted is tagged
\* with a reason that names the failed step and the target.
C12_TagNamesStepAndTarget ==
  (pc = "ret" /\ result = None) =>
    /\ Len(snaps) = 1
    /\ snaps[1].prefix \in {"no_yaxis", "no_option", "no_download", "no_file"}
    /\ snaps[1].label = options_to_fetch[ti]

\* the step a cycle that returned None failed in, by the flags it leaves
FailedStep ==
  IF ~opened THEN "no_yaxis"
  ELSE IF ~chosen THEN "no_option"
  ELSE IF ~dl_candidate_clicked THEN "no_download"
  ELSE "no_file"

\* C12 (amended): a cycle that returns None has taken exactly one capture, tagged
\* with the reason of the step that failed, and with the target except for
\* no_yaxis, whose tag carries no target; a cycle that returns a file or raises
\* has taken none itself (main adds the one for the exception); a target that
\* ended Failed has 3 captures; a target whose export step clicked nothing on
\* all 3 attempts ends Failed with exactly 3 captures, all tagged
\* no_download_<target>; and the loop then goes on to the next target.
C12_OneTaggedCapturePerAbort ==
  /\ [](/\ (pc = "ret" /\ result = None) =>
             /\ Len(snaps) = 1
             /\ snaps[1].prefix = FailedStep
             /\ snaps[1].label = (IF FailedStep = "no_yaxis" THEN <<>> ELSE options_to_fetch[ti])
        /\ (pc = "ret" /\ result # None) => snaps = <<>>
        /\ (pc = "except") => snaps = <<>>
        /\ tally.no_download_tags = tally.export_fails
        /\ tally.captures <= MaxAttempts
        /\ (pc = "next" /\ status[ti] = "Failed") => tally.captures = MaxAttempts
        /\ (pc = "next" /\ tally.export_fails = MaxAttempts) =>
             /\ status[ti] = "Failed"
             /\ tally.captures = MaxAttempts
             /\ tally.no_download_tags = MaxAttempts)
  /\ [][(pc = "next" /\ pc' # "next" /\ ti < NT) =>
          (pc' = "navigate" /\ ti' = ti + 1 /\ attempt' = 1 /\ tally' = NoTally)]_vars

\* C12 witness: the export step of the first target clicked nothing on each of
\* its three attempts and the retry loop has just ended
C12_Witness ==
  /\ pc = "next" /\ ti = 1
  /\ tally.export_fails = 3
  /\ status[1] = "Failed"


\* C13 (as claimed): the summary lists every collected record and every target
\* that ended Failed, and gives the diagnostics directory whenever at least one
\* target failed.
C13_SummaryAccountsForAll ==
  summary.printed =>
    /\ summary.files = downloaded_files
    /\ \A t \in Targets : (status[t] = "Failed") => t \in summary.failed
    /\ (\E t \in Targets : status[t] = "Failed") => summary.snap_dir

\* C16: at most one record is attributed to a (target, attempt) pair, and to a
\* target; the collected list is the list of the records' files, never longer
\* than the number of targets, and holds no file twice.
C16_OneRecordPerTarget ==
  /\ Len(records) = Len(downloaded_files)
  /\ Len(downloaded_files) <= NT
  /\ \A i \in 1..Len(records) :
       /\ records[i].file = downloaded_files[i]
       /\ records[i].file # None
       /\ records[i].target \in Targets /\ records[i].attempt \in 1..MaxAttempts
       /\ succ[records[i].target] = [att |-> records[i].attempt, file |-> records[i].file]
  /\ \A i, j \in 1..Len(records) :
       /\ (records[i].target = records[j].target) => i = j
       /\ (downloaded_files[i] = downloaded_files[j]) => i = j

\* C16 witness: both targets have a record, the first from its third attempt
C16_Witness ==
  /\ Len(records) = 2
  /\ records[1].attempt = 3
  /\ records[2].target = 2
  /\ records[1].file # records[2].file


\* C15: a capture never raises and never changes what follows: the step that
\* takes it in a cycle ends the cycle with None and the tag of the step that
\* failed, the one main takes for an exception is followed by the next attempt
\* or the for-else, and a cycle that returned None is followed by the next
\* attempt or the for-else, whether or not the capture could be written.
C15_CaptureIsBestEffort ==
  /\ []((pc = "ret" /\ snapFailed) =>
          (result = None /\ Len(snaps) = 1 /\ snaps[1].prefix = FailedStep))
  /\ [][(snapTotal' = snapTotal + 1) =>
          /\ exitStatus' = exitStatus
          /\ (pc # "except") => (pc' = "ret" /\ result' = None /\ exc' = exc)
          /\ (pc = "except") =>
               /\ exc' = NoExc
               /\ pc' = (IF attempt < MaxAttempts THEN "navigate" ELSE "next")
               /\ attempt' = (IF attempt < MaxAttempts THEN attempt + 1 ELSE attempt)]_vars
  /\ [][(pc = "ret" /\ pc' # "ret" /\ result = None) =>
          /\ pc' = (IF attempt < MaxAttempts THEN "navigate" ELSE "next")
          /\ attempt' = (IF attempt < MaxAttempts THEN attempt + 1 ELSE attempt)
          /\ status' = (IF attempt < MaxAttempts THEN status
                                                 ELSE [status EXCEPT ![ti] = "Failed"])
          /\ downloaded_files' = downloaded_files
          /\ exitStatus' = exitStatus]_vars

\* C15 witness: the capture of a cycle whose export produced no file could not
\* be written, and the cycle has returned None
C15_Witness ==
  /\ pc = "ret" /\ result = None
  /\ snapFailed
  /\ snaps = <<[prefix |-> "no_file", label |-> options_to_fetch[ti]]>>

\* position of a step of perform_download_cycle in the order of its steps
\* (0: not a step of the cycle)
StepRank(p) ==
  CASE p = "navigate" -> 1
    [] p \in {"open", "open_fb"} -> 2
    [] p = "choose" -> 3
    [] p \in {"refresh", "refresh_js"} -> 4
    [] p \in {"export", "linkscan"} -> 5
    [] p \in {"await", "snapshot", "poll", "stabilize"} -> 6
    [] OTHER -> 0

\* the steps of a cycle occur in order, none skipped, and each cycle starts with
\* the navigation; the export is triggered only after an item was chosen and
\* the watcher is started only after an export control was clicked, in the
\* same cycle
StepsInOrder ==
  /\ [](/\ (StepRank(pc) \in {1, 2}) => (~opened /\ ~chosen /\ ~dl_candidate_clicked)
        /\ (StepRank(pc) = 3) => (opened /\ ~chosen /\ ~dl_candidate_clicked)
        /\ (StepRank(pc) \in {4, 5}) => (opened /\ chosen /\ ~dl_candidate_clicked)
        /\ (StepRank(pc) = 6) => (opened /\ chosen /\ dl_candidate_clicked)
        /\ (pc = "ret" /\ result # None) => (opened /\ chosen /\ dl_candidate_clicked)
        /\ (StepRank(pc) >= 2) => cycles[ti] = attempt)
  /\ [][/\ (StepRank(pc) > 0 /\ StepRank(pc') > 0) =>
             (StepRank(pc') = StepRank(pc) \/ StepRank(pc') = StepRank(pc) + 1)
        /\ (StepRank(pc) = 0 /\ StepRank(pc') > 0) => pc' = "navigate"
        /\ (StepRank(pc) > 0 /\ StepRank(pc') = 0) => pc' \in {"ret", "except"}
        /\ (pc' = "ret" /\ pc # "ret" /\ result' # None) => pc = "stabilize"]_vars

\* C17 (as claimed): the steps occur in order and every cycle ends by returning,
\* a file (Done) or None after a capture (Aborted).
C17_StepsInOrderEndsDoneOrAborted ==
  /\ StepsInOrder
  /\ [][(StepRank(pc) > 0 /\ StepRank(pc') = 0) =>
          (pc' = "ret" /\ (result' # None \/ Len(snaps') = 1))]_vars

\* C17 (amended): the steps occur in order and every cycle ends in exactly one of
\* three ways: it returns a file, it returns None after one capture, or an
\* exception leaves it (to the except clause of main) before any capture.
C17_StepsInOrderEndsOneWay ==
  /\ StepsInOrder
  /\ [][(StepRank(pc) > 0 /\ StepRank(pc') = 0) =>
          \/ (pc' = "ret" /\ result' # None /\ snaps' = <<>> /\ exc' = NoExc)
          \/ (pc' = "ret" /\ result' = None /\ Len(snaps') = 1 /\ exc' = NoExc)
          \/ (pc' = "except" /\ exc' # NoExc /\ snaps' = <<>>)]_vars

\* C17 witness: the second cycle of a target is sampling the file of its export
C17_Witness ==
  /\ pc = "stabilize" /\ attempt = 2
  /\ opened /\ chosen /\ dl_candidate_clicked
  /\ nsamples >= 1

\* C18 (as claimed): the refresh step always proceeds to the export step; a
\* refresh control that resolved and whose click was rejected on every tier
\* does not end the cycle.
C18_RefreshAlwaysProceeds ==
  ~(/\ pc = "except" /\ exc.step = "refresh"
    /\ tfc.resolved
    /\ tfc.calls # <<>> /\ tfc.calls[Len(tfc.calls)] = "force")

\* C19 (as claimed): the item clicked in the first pass has a visible text equal
\* to the target's label; the item clicked in the synonym pass was found for a
\* synonym that contains the label.
C19_ExactFirstThenSynonym ==
  /\ (picked.phase = "exact") => picked.text = options_to_fetch[ti]
  /\ (picked.phase = "fuzzy") => FuzzyMatch(options_to_fetch[ti], picked.query)

\* C20 (as claimed): a rejected click on a located list item never surfaces as
\* an exception out of find_list_item_and_click.
C20_ItemClickNeverRaises ==
  ~(pc = "except" /\ exc.step = "choose" /\ exc.kind = "ElementClickInterceptedException")


\* what is left of a cycle at position p, as a number that every step of the
\* cycle makes smaller: the candidates, patterns and synonyms not yet tried and
\* the ticks left until the watcher's timeout
CycleMeasure ==
  CASE pc \in {"ret", "except"} -> 1
    [] pc = "stabilize" -> 2 + (TimeoutTicks - elapsed)
    [] pc = "poll" -> (TimeoutTicks + 3) + (TimeoutTicks - elapsed)
    [] pc = "snapshot" -> 2 * TimeoutTicks + 4
    [] pc = "await" -> 2 * TimeoutTicks + 5
    [] pc = "linkscan" -> 2 * TimeoutTicks + 6
    [] pc = "export" -> 2 * TimeoutTicks + 7 + (Len(DOWNLOAD_CANDIDATES) - ci)
    [] pc = "refresh_js" -> 2 * TimeoutTicks + 11
    [] pc = "refresh" -> 2 * TimeoutTicks + 12 + (Len(REFRESH_CANDIDATES) - ci)
    [] pc = "choose" -> 2 * TimeoutTicks + 16
                          + (Len(YAXIS_OPTIONS) - oi) * NumPatterns + (NumPatterns - pi)
    [] pc = "open_fb" -> 2 * TimeoutTicks + 46
    [] pc = "open" -> 2 * TimeoutTicks + 47 + (Len(YAXIS_LABEL_CANDIDATES) - ci)
    [] pc = "navigate" -> 2 * TimeoutTicks + 50
    [] OTHER -> 0

\* an upper bound of CycleMeasure, plus one
CycleSpan == 2 * TimeoutTicks + 51

\* what is left of the run: the cycles the remaining attempts and targets can
\* still take, then the summary and the release of the session
RunMeasure ==
  CASE pc = "done" -> 0
    [] pc = "finally" -> 1
    [] pc = "summary" -> 2
    [] pc = "next" -> 3 + (NT - ti) * MaxAttempts * CycleSpan
    [] pc = "cleanup" -> 3 + NT * MaxAttempts * CycleSpan
    [] pc = "start" -> 4 + NT * MaxAttempts * CycleSpan
    [] OTHER -> 3 + ((NT - ti) * MaxAttempts + (MaxAttempts - attempt)) * CycleSpan
                  + CycleMeasure

\* what the browser can still write into the directory without a new export
BrowserMeasure ==
  2 * (late + (IF ownPending THEN 1 ELSE 0)) + (IF PartialFile \in dir THEN 0 ELSE 1)

\* C14: every run terminates: the poll and the size loop stay within the
\* timeout, no target has more than 3 cycles, the program always has a next
\* step until the run is over, and every step of the program makes what is
\* left of the run smaller, whatever the page and the download directory do
\* (a write of the browser leaves it as it is and uses up what the browser can
\* still write), so a run whose browser session was created reaches the
\* summary and the release of the session.
C14_RunTerminates ==
  /\ [](/\ elapsed <= TimeoutTicks
        /\ nsamples <= TimeoutTicks
        /\ attempt <= MaxAttempts
        /\ \A t \in Targets : cycles[t] <= MaxAttempts
        /\ RunMeasure >= 0 /\ BrowserMeasure >= 0
        /\ (RunMeasure = 0) <=> Done
        /\ (Done /\ SessionStarted) => quitCount = 1
        /\ (RunMeasure <= 1 /\ SessionStarted) => summary.printed
        /\ (pc # "done") => ENABLED ProgramStep)
  /\ [][\/ RunMeasure' < RunMeasure
        \/ (RunMeasure' = RunMeasure /\ BrowserMeasure' < BrowserMeasure)]_vars

\* C14 witness: the run ended after six cycles in which no file was ever reported
C14_Witness ==
  /\ Done /\ quitCount = 1 /\ summary.printed
  /\ \A t \in Targets : cycles[t] = MaxAttempts /\ status[t] = "Failed"
  /\ downloaded_files = <<>>
  /\ summary.snap_dir


\* C21 (as claimed): the link scan clicks the first link it found.
C21_ScanClicksFirstLink ==
  scan.clicked => scan.idx = 1

\* the ranked candidates of the role have all been tried and all returned False
CandidatesExhausted(role) ==
  /\ Len(tried) = Len(CandidatesOf(role))
  /\ \A k \in 1..Len(tried) : tried[k].role = role /\ tried[k].idx = k /\ tried[k].ret = "False"

\* C21 (amended): the coarse fallback of the open step and the link scan of the
\* export step are entered only from the candidate loop of their step, after
\* every ranked candidate returned False, and run once; the link scan tries
\* the links in order and clicks the first one whose scroll and click both go
\* through, every link before it having raised; the no_yaxis and no_download
\* captures are taken only by the fallback, when it too has failed.
C21_FallbackOnlyAfterCandidates ==
  /\ [](/\ (pc = "open_fb") => CandidatesExhausted("open")
        /\ (pc = "linkscan") => CandidatesExhausted("export")
        /\ scan.clicked => (scan.idx >= 1 /\ scan.visited = scan.idx
                            /\ scan.failed = scan.idx - 1)
        /\ (~scan.clicked) => (scan.idx = 0 /\ scan.failed = scan.visited)
        /\ (pc = "ret" /\ result = None /\ snaps[1].prefix = "no_yaxis") => ~opened
        /\ (pc = "ret" /\ result = None /\ snaps[1].prefix = "no_download") =>
             (~scan.clicked /\ ~dl_candidate_clicked))
  /\ [][/\ (pc' = "open_fb" /\ pc # "open_fb") => (pc = "open")
        /\ (pc' = "linkscan" /\ pc # "linkscan") => (pc = "export")
        /\ (pc' = pc /\ pc \in {"open_fb", "linkscan"}) =>
             (tried' = tried /\ opened' = opened /\ scan' = scan
              /\ dl_candidate_clicked' = dl_candidate_clicked /\ snaps' = snaps)
        /\ (Len(snaps') = 1 /\ snaps = <<>> /\ snaps'[1].prefix = "no_yaxis") =>
             (pc = "open_fb")
        /\ (Len(snaps') = 1 /\ snaps = <<>> /\ snaps'[1].prefix = "no_download") =>
             (pc = "linkscan")]_vars

\* C21 witness: no export candidate was clicked, the first link the scan found
\* raised and the second was clicked
C21_Witness ==
  /\ pc = "await"
  /\ scan.clicked /\ scan.idx = 2 /\ scan.failed = 1
  /\ dl_candidate_clicked


\* the tiers of the click escalation, after the wait, in the order of the code
Ladder == <<"wait", "click", "scroll", "click", "force">>

\* how often the call c occurs in the trace of calls
Occurrences(calls, c) == Cardinality({i \in 1..Len(calls) : calls[i] = c})

\* C22: the calls try_find_click makes on the session are a prefix of the
\* ladder wait, click, scroll, click, forced activation: at most two direct
\* clicks and one forced activation; the scroll happens only after a direct
\* click raised, the forced activation only after both direct clicks raised,
\* and when the first click goes through neither happens.
C22_ClickLadder ==
  LET calls == tfc.calls
  IN /\ Len(calls) <= Len(Ladder)
     /\ \A i \in 1..Len(calls) : calls[i] = Ladder[i]
     /\ Occurrences(calls, "click") <= 2
     /\ Occurrences(calls, "force") <= 1
     /\ Occurrences(calls, "scroll") = 1 => tfc.clicks_failed >= 1
     /\ Occurrences(calls, "force") = 1 => tfc.clicks_failed = 2
     /\ tfc.clicks_failed = 1 => Occurrences(calls, "scroll") = 1
     /\ tfc.clicks_failed = 2 => calls = Ladder
     /\ (tfc.resolved /\ tfc.clicks_failed = 0) =>
          (calls = <<"wait", "click">> /\ tfc.ret = "True")

\* C22 witness: both direct clicks raised and the forced activation went through
C22_Witness ==
  /\ tfc.calls = Ladder
  /\ tfc.clicks_failed = 2
  /\ tfc.ret = "True"


\* the seconds spent in the waits of the candidates tried so far that timed
\* out, and the sub-timeouts their callers passed
RECURSIVE SumOf(_, _)
SumOf(list, field) ==
  IF list = <<>> THEN 0
  ELSE list[1][field] + SumOf(Tail(list), field)

\* C23: the wait of every candidate is bounded by the sub-timeout its caller
\* passed (8 for the open and export candidates, 10 for the refresh
\* candidates), so the time spent on failing candidates is at most the sum of
\* their sub-timeouts.
C23_WaitWithinSubTimeout ==
  /\ \A k \in 1..Len(tried) : tried[k].waited <= tried[k].timeout
  /\ SumOf(tried, "waited") <= SumOf(tried, "timeout")


\* C24: the file is declared complete at the third consecutive identical
\* reading of its size: not before, without a fourth reading, and a differing
\* reading restarts the count.
C24_ThreeEqualReadingsSuffice ==
  /\ (pc = "stabilize" /\ streak >= StableNeeded) => ~KeepSampling(stable_count, elapsed)
  /\ (pc = "ret" /\ result # None) => streak >= StableNeeded
  /\ (pc = "stabilize" /\ nsamples > 0 /\ streak = 1) => stable_count = 0

\* C25: the export file of the cycle, written at any moment after the export
\* click, is not in the snapshot the watcher compares the directory with: every
\* poll the watcher makes within its timeout finds it as a new file.
C25_OwnExportFound ==
  (pc = "poll" /\ ownFile # None /\ KeepPolling(elapsed)) =>
    (ownFile \notin before /\ ownFile \in NewFiles(dir, before))

\* C26: the file a cycle returns is the file its own export produced, never the
\* late file of an earlier cycle.
C26_ResultIsOwnExport ==
  (pc = "ret" /\ result # None) => result = ownFile


====
